---------------------------- MODULE Spec2Model ----------------------------
(***************************************************************************)
(* A model of the pi PKM mode extension (extensions/pi-pkm-mode.ts).       *)
(*                                                                         *)
(* Strings are sequences of atoms.  An atom is a one-character string, or  *)
(* a run of text that no operation of the program takes apart (a line of   *)
(* the built-in prompt, a triple-quote delimiter, a hinted assignment      *)
(* name, a path segment, a fixed part of a notification).                  *)
(* The white-space atoms are " ", "\t", "\r" and "\n".                     *)
(***************************************************************************)
EXTENDS Integers, Sequences, FiniteSets, TLC

(***************************************************************************)
(* Bounds of the model.                                                    *)
(***************************************************************************)
\* The longest session log the model lets the command handler grow.
MaxLog == 2
\* The most forwarded user messages awaiting their agent turn.
MaxOutbox == 1
\* The longest session log the host hands over from disk.
MaxHistory == 2
\* The longest session log with records of every shape.
MaxRecords == 2
\* The most segments a generated prompt file is put together from.
MaxSegments == 4

(***************************************************************************)
(* String primitives of the JavaScript runtime.                            *)
(***************************************************************************)
WhiteSpace == {" ", "\t", "\r", "\n"}

IsBlank(s) == \A i \in 1..Len(s) : s[i] \in WhiteSpace

\* String.prototype.trimStart
RECURSIVE TrimStart(_)
TrimStart(s) ==
    IF s # <<>> /\ Head(s) \in WhiteSpace THEN TrimStart(Tail(s)) ELSE s

\* String.prototype.trimEnd
RECURSIVE TrimEnd(_)
TrimEnd(s) ==
    IF s # <<>> /\ s[Len(s)] \in WhiteSpace
    THEN TrimEnd(SubSeq(s, 1, Len(s) - 1))
    ELSE s

\* String.prototype.trim
Trim(s) == TrimEnd(TrimStart(s))

UpperCase ==
    <<"A", "B", "C", "D", "E", "F", "G", "H", "I", "J", "K", "L", "M",
      "N", "O", "P", "Q", "R", "S", "T", "U", "V", "W", "X", "Y", "Z">>

LowerCase ==
    <<"a", "b", "c", "d", "e", "f", "g", "h", "i", "j", "k", "l", "m",
      "n", "o", "p", "q", "r", "s", "t", "u", "v", "w", "x", "y", "z">>

LowerChar(c) ==
    IF \E i \in 1..26 : UpperCase[i] = c
    THEN LowerCase[CHOOSE i \in 1..26 : UpperCase[i] = c]
    ELSE c

\* String.prototype.toLowerCase
ToLowerCase(s) == [i \in 1..Len(s) |-> LowerChar(s[i])]

\* String.prototype.startsWith
StartsWith(s, p) == Len(s) >= Len(p) /\ SubSeq(s, 1, Len(p)) = p

\* String.prototype.slice(n)
SliceFrom(s, n) == SubSeq(s, n + 1, Len(s))

(***************************************************************************)
(* The built-in prompt (DEFAULT_PI_PKM_PROMPT), one atom per line.         *)
(***************************************************************************)
DEFAULT_PI_PKM_PROMPT ==
    << "You are an expert personal knowledge manager.", "\n",
       "Your goal is to help me organize my thoughts, ideas, and knowledge into a structured set of files.", "\n",
       "You will be creating and editing markdown files.", "\n",
       "When I share ideas with you, you should help me clarify them and then save them to the appropriate files.", "\n",
       "You can ask me questions to better understand where to save the information or how to structure it.", "\n",
       "Focus on creating a well-organized and easy-to-navigate knowledge base.", "\n",
       "Do not write code unless I explicitly ask you to." >>

BuiltinSource == <<"builtin-default">>


(***************************************************************************)
(* Prompt extraction from a Python prompt file.                            *)
(***************************************************************************)
PKM_PROMPT_ASSIGNMENT_CANDIDATES ==
    <<"pkm_system", "main_system", "system_prompt", "system", "prompt">>

AssignmentNames ==
    {PKM_PROMPT_ASSIGNMENT_CANDIDATES[i] : i \in 1..Len(PKM_PROMPT_ASSIGNMENT_CANDIDATES)}

\* The two triple-quote delimiters, one atom each.
DQ == "\"\"\""
SQ == "'''"
TripleQuotes == {DQ, SQ}

\* The character class [rRuUbBfF] of both regular expressions.
StringPrefixChars == {"r", "R", "u", "U", "b", "B", "f", "F"}

\* A value that may be undefined.
Undefined == [defined |-> FALSE, text |-> <<>>]
Defined(t) == [defined |-> TRUE, text |-> t]

stripTripleQuotes(value) ==
    IF value # <<>> /\ Head(value) = DQ /\ value[Len(value)] = DQ
    THEN SubSeq(value, 2, Len(value) - 1)
    ELSE IF value # <<>> /\ Head(value) = SQ /\ value[Len(value)] = SQ
    THEN SubSeq(value, 2, Len(value) - 1)
    ELSE value

\* value.replace(/\r\n/g, "\n")
RECURSIVE ReplaceCRLF(_)
ReplaceCRLF(s) ==
    IF s = <<>> THEN <<>>
    ELSE IF Len(s) >= 2 /\ s[1] = "\r" /\ s[2] = "\n" THEN ReplaceCRLF(Tail(s))
    ELSE <<Head(s)>> \o ReplaceCRLF(Tail(s))

\* String.prototype.split("\n"): the lines of s, at least one.
RECURSIVE SplitLines(_)
SplitLines(s) ==
    IF \E i \in 1..Len(s) : s[i] = "\n"
    THEN LET i == CHOOSE k \in 1..Len(s) :
                    s[k] = "\n" /\ \A j \in 1..(k - 1) : s[j] # "\n"
         IN  <<SubSeq(s, 1, i - 1)>> \o SplitLines(SubSeq(s, i + 1, Len(s)))
    ELSE <<s>>

\* Array.prototype.join("\n")
RECURSIVE JoinLines(_)
JoinLines(lines) ==
    IF lines = <<>> THEN <<>>
    ELSE IF Len(lines) = 1 THEN lines[1]
    ELSE lines[1] \o <<"\n">> \o JoinLines(Tail(lines))

\* The two loops that drop blank lines from the front and from the back.
RECURSIVE ShiftBlankLines(_)
ShiftBlankLines(lines) ==
    IF lines # <<>> /\ IsBlank(Head(lines)) THEN ShiftBlankLines(Tail(lines)) ELSE lines

RECURSIVE PopBlankLines(_)
PopBlankLines(lines) ==
    IF lines # <<>> /\ IsBlank(lines[Len(lines)])
    THEN PopBlankLines(SubSeq(lines, 1, Len(lines) - 1))
    ELSE lines

\* line.match(/^\s*/)[0].length
Indent(line) == Len(line) - Len(TrimStart(line))

dedent(value) ==
    LET lines == PopBlankLines(ShiftBlankLines(SplitLines(ReplaceCRLF(value))))
        inked == {i \in 1..Len(lines) : ~IsBlank(lines[i])}
    IN  IF inked = {} THEN <<>>
        ELSE LET minIndent == CHOOSE m \in {Indent(lines[i]) : i \in inked} :
                                  \A i \in inked : m <= Indent(lines[i])
             IN  Trim(JoinLines([i \in 1..Len(lines) |-> SliceFrom(lines[i], minIndent)]))

\* The end of the lazily matched block that opens at i: the nearest later
\* delimiter of the same kind, or 0 when there is none.
BlockEnd(content, i) ==
    IF \E j \in (i + 1)..Len(content) : content[j] = content[i]
    THEN CHOOSE j \in (i + 1)..Len(content) :
            content[j] = content[i] /\ \A k \in (i + 1)..(j - 1) : content[k] # content[i]
    ELSE 0

\* ("""[\s\S]*?"""|'''[\s\S]*?''') matches at i.
BlockAt(content, i) ==
    i \in 1..Len(content) /\ content[i] \in TripleQuotes /\ BlockEnd(content, i) # 0

\* The first position at or after i that holds no white space.
RECURSIVE SkipSpace(_, _)
SkipSpace(content, i) ==
    IF i <= Len(content) /\ content[i] \in WhiteSpace THEN SkipSpace(content, i + 1) ELSE i

\* (?:[rRuUbBfF]{0,2})? followed by a block: the position of the block's
\* opening delimiter, or 0.
PrefixedBlock(content, i) ==
    IF BlockAt(content, i) THEN i
    ELSE IF i <= Len(content) /\ content[i] \in StringPrefixChars /\ BlockAt(content, i + 1)
    THEN i + 1
    ELSE IF i + 1 <= Len(content) /\ content[i] \in StringPrefixChars
            /\ content[i + 1] \in StringPrefixChars /\ BlockAt(content, i + 2)
    THEN i + 2
    ELSE 0

\* (?:^|\n)\s* ends right before n.
AtLineStart(content, n) ==
    \E p \in 0..(n - 1) :
        /\ p = 0 \/ content[p] = "\n"
        /\ \A k \in (p + 1)..(n - 1) : content[k] \in WhiteSpace

\* assignmentRe matches with its hinted name at n: the position of the
\* captured block's opening delimiter, or 0.
AssignmentAt(content, n) ==
    IF content[n] \in AssignmentNames /\ AtLineStart(content, n)
    THEN LET eq == SkipSpace(content, n + 1)
         IN  IF eq <= Len(content) /\ content[eq] = "="
             THEN PrefixedBlock(content, SkipSpace(content, eq + 1))
             ELSE 0
    ELSE 0

\* The extraction without the search for a hinted assignment.
extractPiPkmPromptFromPython_FirstBlock(content) ==
    LET blocks   == {i \in 1..Len(content) : BlockAt(content, i)}
        Least(S) == CHOOSE x \in S : \A y \in S : x <= y
        Capture(i) == SubSeq(content, i, BlockEnd(content, i))
    IN  IF blocks # {}
        THEN Defined(dedent(stripTripleQuotes(Capture(Least(blocks)))))
        ELSE Undefined

extractPiPkmPromptFromPython(content) ==
    LET assigned == {n \in 1..Len(content) : AssignmentAt(content, n) # 0}
        blocks   == {i \in 1..Len(content) : BlockAt(content, i)}
        Least(S) == CHOOSE x \in S : \A y \in S : x <= y
        Capture(i) == SubSeq(content, i, BlockEnd(content, i))
    IN  IF assigned # {}
        THEN Defined(dedent(stripTripleQuotes(Capture(AssignmentAt(content, Least(assigned))))))
        ELSE IF blocks # {}
        THEN Defined(dedent(stripTripleQuotes(Capture(Least(blocks)))))
        ELSE Undefined


(***************************************************************************)
(* Paths and the file system the prompt is resolved against.               *)
(***************************************************************************)
\* os.homedir()
HomeDir == <<"/", "home", "/", "user">>

\* path.normalize, for paths without "." and ".." segments: runs of "/"
\* collapse into one.
RECURSIVE CollapseSlashes(_)
CollapseSlashes(p) ==
    IF Len(p) < 2 THEN p
    ELSE IF p[1] = "/" /\ p[2] = "/" THEN CollapseSlashes(Tail(p))
    ELSE <<Head(p)>> \o CollapseSlashes(Tail(p))

\* path.join: the non-empty parts with "/" between them, normalized.
RECURSIVE JoinParts(_)
JoinParts(parts) ==
    IF parts = <<>> THEN <<>>
    ELSE LET rest == JoinParts(Tail(parts))
         IN  IF Head(parts) = <<>> THEN rest
             ELSE IF rest = <<>> THEN Head(parts)
             ELSE Head(parts) \o <<"/">> \o rest

join(parts) == CollapseSlashes(JoinParts(parts))

getDefaultPiPkmPromptPaths ==
    LET promptSourceRoot == join(<<HomeDir, <<"code">>, <<"aiderx">>, <<"aider">>>>)
    IN  << join(<<promptSourceRoot, <<"extensions">>, <<"handlers">>, <<"pkm_handler.py">>>>),
           join(<<promptSourceRoot, <<"coders">>, <<"pkm_prompts.py">>>>),
           join(<<promptSourceRoot, <<"coders">>, <<"pkm_coder.py">>>>) >>

normalizePromptPath(path) ==
    LET trimmed == Trim(path)
    IN  IF trimmed = <<"~">> THEN HomeDir
        ELSE IF StartsWith(trimmed, <<"~", "/">>) THEN join(<<HomeDir, SliceFrom(trimmed, 2)>>)
        ELSE IF StartsWith(trimmed, <<"~">>) THEN join(<<HomeDir, SliceFrom(trimmed, 1)>>)
        ELSE trimmed

\* What a path holds: nothing, something that exists and cannot be read (a
\* directory, a file without read permission), or a file with its content.
Missing == [kind |-> "missing", content |-> <<>>]
Unreadable == [kind |-> "unreadable", content |-> <<>>]
File(c) == [kind |-> "file", content |-> c]

existsSync(files, path) == path \in DOMAIN files /\ files[path].kind # "missing"

\* One candidate of the loop of resolvePiPkmPrompt: the prompt it yields, or
\* undefined when the loop goes on to the next candidate (the path does not
\* exist, readFileSync throws, or the extracted text is undefined or empty).
TryPromptPath_NoLengthCheck(files, path) ==
    LET promptPath == normalizePromptPath(path)
    IN  IF ~existsSync(files, promptPath) THEN Undefined
        ELSE IF files[promptPath].kind # "file" THEN Undefined
        ELSE extractPiPkmPromptFromPython(files[promptPath].content)

TryPromptPath(files, path) ==
    LET promptPath == normalizePromptPath(path)
    IN  IF ~existsSync(files, promptPath) THEN Undefined
        ELSE IF files[promptPath].kind # "file" THEN Undefined
        ELSE LET extractedPrompt == extractPiPkmPromptFromPython(files[promptPath].content)
             IN  IF extractedPrompt.defined /\ Len(extractedPrompt.text) > 0
                 THEN extractedPrompt
                 ELSE Undefined

\* The loop of resolvePiPkmPrompt, with the label of the fallback taken from
\* the last candidate tried.
RECURSIVE resolvePiPkmPrompt_FallbackSource(_, _)
resolvePiPkmPrompt_FallbackSource(files, promptPaths) ==
    IF promptPaths = <<>>
    THEN [prompt |-> DEFAULT_PI_PKM_PROMPT, source |-> BuiltinSource]
    ELSE LET tried == TryPromptPath(files, Head(promptPaths))
         IN  IF tried.defined
             THEN [prompt |-> tried.text, source |-> normalizePromptPath(Head(promptPaths))]
             ELSE IF Len(promptPaths) = 1 /\ existsSync(files, normalizePromptPath(Head(promptPaths)))
             THEN [prompt |-> DEFAULT_PI_PKM_PROMPT,
                   source |-> normalizePromptPath(Head(promptPaths))]
             ELSE resolvePiPkmPrompt_FallbackSource(files, Tail(promptPaths))

RECURSIVE resolvePiPkmPrompt(_, _)
resolvePiPkmPrompt(files, promptPaths) ==
    IF promptPaths = <<>>
    THEN [prompt |-> DEFAULT_PI_PKM_PROMPT, source |-> BuiltinSource]
    ELSE LET tried == TryPromptPath(files, Head(promptPaths))
         IN  IF tried.defined
             THEN [prompt |-> tried.text, source |-> normalizePromptPath(Head(promptPaths))]
             ELSE resolvePiPkmPrompt(files, Tail(promptPaths))

\* The value of a flag: a string, or not a string (the flag was not given).
NoFlag == [isString |-> FALSE, value |-> <<>>]
FlagValue(v) == [isString |-> TRUE, value |-> v]

\* resolvePrompt with the custom path tried after the default paths.
resolvePrompt_DefaultsFirst(files, customPathFlag) ==
    LET hasCustom == customPathFlag.isString /\ Trim(customPathFlag.value) # <<>>
        paths == IF hasCustom
                 THEN getDefaultPiPkmPromptPaths \o <<Trim(customPathFlag.value)>>
                 ELSE getDefaultPiPkmPromptPaths
    IN  resolvePiPkmPrompt(files, paths)

\* resolvePrompt, up to its two assignments to state.
resolvePrompt(files, customPathFlag) ==
    LET hasCustom == customPathFlag.isString /\ Trim(customPathFlag.value) # <<>>
        paths == IF hasCustom
                 THEN <<Trim(customPathFlag.value)>> \o getDefaultPiPkmPromptPaths
                 ELSE getDefaultPiPkmPromptPaths
    IN  resolvePiPkmPrompt(files, paths)

(***************************************************************************)
(* The session log.                                                        *)
(***************************************************************************)
\* The data of a custom entry, by what typeof says of it and of its enabled
\* field: undefined or null, not an object, an object without a boolean
\* enabled field, or an object {enabled: b}.
NoData == [kind |-> "nullish", enabledIsBoolean |-> FALSE, enabled |-> FALSE]
StringData == [kind |-> "string", enabledIsBoolean |-> FALSE, enabled |-> FALSE]
OtherObject == [kind |-> "object", enabledIsBoolean |-> FALSE, enabled |-> FALSE]
EnabledData(b) == [kind |-> "object", enabledIsBoolean |-> TRUE, enabled |-> b]

CustomEntry(customType, data) == [type |-> "custom", customType |-> customType, data |-> data]
MessageEntry == [type |-> "message", customType |-> "", data |-> NoData]

PkmEntry(b) == CustomEntry("pkm-mode", EnabledData(b))

IsPkmEntry(entry) == entry.type = "custom" /\ entry.customType = "pkm-mode"

\* The loop of parsePkmModeEntry from index down to 1.
RECURSIVE ScanEntries(_, _)
ScanEntries(entries, index) ==
    IF index < 1 THEN [defined |-> FALSE, value |-> FALSE]
    ELSE IF ~IsPkmEntry(entries[index]) THEN ScanEntries(entries, index - 1)
    ELSE IF entries[index].data.kind # "object" THEN [defined |-> FALSE, value |-> FALSE]
    ELSE IF entries[index].data.enabledIsBoolean
    THEN [defined |-> TRUE, value |-> entries[index].data.enabled]
    ELSE [defined |-> FALSE, value |-> FALSE]

\* The scan run from the oldest entry to the newest.
RECURSIVE ScanEntriesForward(_, _)
ScanEntriesForward(entries, index) ==
    IF index > Len(entries) THEN [defined |-> FALSE, value |-> FALSE]
    ELSE IF ~IsPkmEntry(entries[index]) THEN ScanEntriesForward(entries, index + 1)
    ELSE IF entries[index].data.kind # "object" THEN [defined |-> FALSE, value |-> FALSE]
    ELSE IF entries[index].data.enabledIsBoolean
    THEN [defined |-> TRUE, value |-> entries[index].data.enabled]
    ELSE [defined |-> FALSE, value |-> FALSE]

parsePkmModeEntry_Oldest(entries) == ScanEntriesForward(entries, 1)

parsePkmModeEntry(entries) == ScanEntries(entries, Len(entries))

\* updateStatus without the test of ctx.hasUI.
updateStatus_NoUICheck(ui, isEnabled, item) ==
    IF isEnabled THEN "PKM" ELSE "undefined"

\* updateStatus: the host's status item "pkm-mode" after the call.
updateStatus(ui, isEnabled, item) ==
    IF ~ui THEN item
    ELSE IF isEnabled THEN "PKM" ELSE "undefined"


(***************************************************************************)
(* The inputs the host and the user supply.                                *)
(***************************************************************************)
\* Arguments of /pkm, one atom per character.
CommandArgs ==
    { <<>>,
      <<" ", "\t">>,
      <<"o", "n">>,
      <<" ", "E", "n", "a", "b", "l", "e", " ">>,
      <<"E", "N", "A", "B", "L", "E", "D">>,
      <<"o", "f", "f">>,
      <<"D", "i", "s", "a", "b", "l", "e">>,
      <<"d", "i", "s", "a", "b", "l", "e", "d", " ">>,
      <<"s", "t", "a", "t", "u", "s">>,
      <<" ", "S", "T", "A", "T", "U", "S">>,
      <<" ", "O", "n", " ", "I", "t", " ">> }

\* System prompts the host builds before an agent turn.
SystemPrompts == { <<>>, <<"You are pi.">> }

\* Prompts the user types at the host.
TypedPrompts == { <<"hello">> }

CustomPath == normalizePromptPath(<<" ", "~", "/", "my.py", " ">>)

\* Prompt files.
AssignedFile ==
    File(<<"pkm_system", " ", "=", " ", DQ, "\n",
           " ", " ", "Keep notes.", "\n",
           " ", " ", " ", "Link them.", "\r", "\n", DQ, "\n">>)
BlankBlockFile == File(<<"prompt", "=", SQ, " ", "\n", " ", SQ>>)
NoBlockFile == File(<<"x", " ", "=", " ", "1", "\n">>)
DocstringFile ==
    File(<<DQ, "Doc.", DQ, "\n", "other", " ", "=", " ", "r", SQ, "Body", SQ>>)

\* A file system: what the custom path and the three default paths hold.
FileSystem(c, d1, d2, d3) ==
    LET d == getDefaultPiPkmPromptPaths
    IN  (CustomPath :> c) @@ (d[1] :> d1) @@ (d[2] :> d2) @@ (d[3] :> d3)

\* The installations the model runs in: a value of --pkm-prompt-path and a
\* file system.
Installations ==
    { <<NoFlag, FileSystem(Missing, Missing, Missing, Missing)>>,
      <<FlagValue(<<" ", " ">>), FileSystem(AssignedFile, Missing, DocstringFile, Missing)>>,
      <<FlagValue(<<" ", "~", "/", "my.py", " ">>),
        FileSystem(AssignedFile, Missing, DocstringFile, Missing)>>,
      <<FlagValue(<<" ", "~", "/", "my.py", " ">>),
        FileSystem(BlankBlockFile, Unreadable, NoBlockFile, DocstringFile)>> }

\* Entries of a session log read from disk: a message, what /pkm appended,
\* and a "pkm-mode" entry without data.
HistoryEntries ==
    { MessageEntry,
      PkmEntry(TRUE),
      PkmEntry(FALSE),
      CustomEntry("pkm-mode", NoData) }

\* The session logs the host hands over at session_start.
HistoryLogs == UNION {[1..n -> HistoryEntries] : n \in 0..MaxHistory}

(***************************************************************************)
(* The state.                                                              *)
(***************************************************************************)
VARIABLES
    state,          \* PkmModeState: enabled, prompt, promptSource
    entries,        \* the entries of the current session's log
    statusItem,     \* the host's status item "pkm-mode": "PKM" or "undefined"
    outbox,         \* user messages forwarded with sendUserMessage, awaiting their agent turn
    pkmFlag,        \* --pkm
    promptPathFlag, \* --pkm-prompt-path
    hasUI,          \* ctx.hasUI
    fs,             \* the file system
    started,        \* the host has raised session_start
    lastEvent       \* the handler that ran last, with its input and what it sent to the host

vars == <<state, entries, statusItem, outbox, pkmFlag, promptPathFlag, hasUI, fs, started, lastEvent>>

\* A notification: ctx.ui.notify(text, level).
Note(text, level) == [text |-> text, level |-> level]

\* op: the handler; args: the argument of /pkm or the prompt of the agent
\* turn; pre: state.enabled before the handler; again: the handler before
\* was /pkm with the same normalized argument; appended, notes, sent: the
\* handler's calls of pi.appendEntry, ctx.ui.notify and pi.sendUserMessage;
\* result: what before_agent_start returned.
Event(op, args, sys, forwarded, pre, again, appended, notes, sent, result) ==
    [ op |-> op, args |-> args, systemPrompt |-> sys, forwarded |-> forwarded,
      pre |-> pre, again |-> again, appended |-> appended, notes |-> notes,
      sent |-> sent, result |-> result ]

\* piPkmModeExtension: the state after the extension is loaded.
Init ==
    /\ state = [enabled |-> FALSE, prompt |-> DEFAULT_PI_PKM_PROMPT, promptSource |-> BuiltinSource]
    /\ entries = <<>>
    /\ statusItem = "undefined"
    /\ outbox = <<>>
    /\ pkmFlag \in BOOLEAN
    /\ \E installation \in Installations :
          promptPathFlag = installation[1] /\ fs = installation[2]
    /\ hasUI \in BOOLEAN
    /\ started = FALSE
    /\ lastEvent = Event("load", <<>>, <<>>, FALSE, FALSE, FALSE, <<>>, <<>>, <<>>, Undefined)

(***************************************************************************)
(* The /pkm command.                                                       *)
(***************************************************************************)
StatusWord == <<"s", "t", "a", "t", "u", "s">>
OnWords == { <<"o", "n">>, <<"e", "n", "a", "b", "l", "e">>, <<"e", "n", "a", "b", "l", "e", "d">> }
OffWords == { <<"o", "f", "f">>, <<"d", "i", "s", "a", "b", "l", "e">>,
              <<"d", "i", "s", "a", "b", "l", "e", "d">> }

\* args.trim().toLowerCase()
Normalized(args) == ToLowerCase(Trim(args))

\* The branch of the handler that the normalized argument selects.
commandBranch_OffOnly(normalized) ==
    IF normalized = StatusWord THEN "status"
    ELSE IF normalized \in OnWords THEN "on"
    ELSE IF normalized = <<"o", "f", "f">> THEN "off"
    ELSE IF Len(normalized) > 0 THEN "text"
    ELSE "toggle"

commandBranch(normalized) ==
    IF normalized = StatusWord THEN "status"
    ELSE IF normalized \in OnWords THEN "on"
    ELSE IF normalized \in OffWords THEN "off"
    ELSE IF Len(normalized) > 0 THEN "text"
    ELSE "toggle"

\* state.enabled as the branch assigns it.
branchEnabled_ToggleSets(branch, isEnabled) ==
    IF branch = "status" THEN isEnabled
    ELSE IF branch = "off" THEN FALSE
    ELSE TRUE

\* The branches with free text flipping the mode like an empty argument.
branchEnabled_TextToggles(branch, isEnabled) ==
    IF branch = "status" THEN isEnabled
    ELSE IF branch = "on" THEN TRUE
    ELSE IF branch = "off" THEN FALSE
    ELSE ~isEnabled

branchEnabled(branch, isEnabled) ==
    IF branch = "status" THEN isEnabled
    ELSE IF branch = "on" THEN TRUE
    ELSE IF branch = "off" THEN FALSE
    ELSE IF branch = "text" THEN TRUE
    ELSE ~isEnabled

\* persistState, called when state.enabled has gone from wasEnabled to
\* isEnabled: the entries it appends with pi.appendEntry.
persistState_SkipUnchanged(wasEnabled, isEnabled) ==
    IF wasEnabled = isEnabled THEN <<>> ELSE <<PkmEntry(isEnabled)>>

persistState_Stale(wasEnabled, isEnabled) == <<PkmEntry(wasEnabled)>>

persistState(wasEnabled, isEnabled) == <<PkmEntry(isEnabled)>>

\* The notifications of the handler, when there is a UI.
commandNotes_StatusSwapped(branch, isEnabled, promptSource) ==
    IF branch = "status"
    THEN << Note(<<"PKM mode ", IF isEnabled THEN "disabled" ELSE "enabled", ". Prompt: ">>
                    \o promptSource, "undefined") >>
    ELSE IF branch = "text" \/ isEnabled
    THEN << Note(<<"PKM mode enabled (">> \o promptSource \o <<")">>, "info") >>
    ELSE << Note(<<"PKM mode disabled">>, "info") >>

commandNotes(branch, isEnabled, promptSource) ==
    IF branch = "status"
    THEN << Note(<<"PKM mode ", IF isEnabled THEN "enabled" ELSE "disabled", ". Prompt: ">>
                    \o promptSource, "undefined") >>
    ELSE IF branch = "text" \/ isEnabled
    THEN << Note(<<"PKM mode enabled (">> \o promptSource \o <<")">>, "info") >>
    ELSE << Note(<<"PKM mode disabled">>, "info") >>

\* The messages the handler forwards with pi.sendUserMessage.
commandSent_Normalized(branch, args) == IF branch = "text" THEN <<Normalized(args)>> ELSE <<>>

commandSent(branch, args) == IF branch = "text" THEN <<Trim(args)>> ELSE <<>>

\* The handler with its off branch putting the built-in prompt back.
pkmCommand_OffResetsPrompt(args) ==
    LET branch == commandBranch(Normalized(args))
        isEnabled == branchEnabled(branch, state.enabled)
        sent == commandSent(branch, args)
        appended == IF branch = "status" THEN <<>> ELSE persistState(state.enabled, isEnabled)
    IN  /\ started
        /\ branch # "status" => Len(entries) < MaxLog
        /\ Len(outbox) + Len(sent) <= MaxOutbox
        /\ state' = IF branch = "off"
                    THEN [enabled |-> isEnabled, prompt |-> DEFAULT_PI_PKM_PROMPT,
                          promptSource |-> BuiltinSource]
                    ELSE [state EXCEPT !.enabled = isEnabled]
        /\ entries' = entries \o appended
        /\ statusItem' = updateStatus(hasUI, isEnabled, statusItem)
        /\ outbox' = outbox \o sent
        /\ lastEvent' = Event("pkm", args, <<>>, FALSE, state.enabled,
                              lastEvent.op = "pkm" /\ Normalized(lastEvent.args) = Normalized(args),
                              appended,
                              IF hasUI THEN commandNotes(branch, isEnabled, state.promptSource) ELSE <<>>,
                              sent, Undefined)
        /\ UNCHANGED <<pkmFlag, promptPathFlag, hasUI, fs, started>>

pkmCommand(args) ==
    LET branch == commandBranch(Normalized(args))
        isEnabled == branchEnabled(branch, state.enabled)
        sent == commandSent(branch, args)
        appended == IF branch = "status" THEN <<>> ELSE persistState(state.enabled, isEnabled)
    IN  /\ started
        /\ branch # "status" => Len(entries) < MaxLog
        /\ Len(outbox) + Len(sent) <= MaxOutbox
        /\ state' = [state EXCEPT !.enabled = isEnabled]
        /\ entries' = entries \o appended
        /\ statusItem' = updateStatus(hasUI, isEnabled, statusItem)
        /\ outbox' = outbox \o sent
        /\ lastEvent' = Event("pkm", args, <<>>, FALSE, state.enabled,
                              lastEvent.op = "pkm" /\ Normalized(lastEvent.args) = Normalized(args),
                              appended,
                              IF hasUI THEN commandNotes(branch, isEnabled, state.promptSource) ELSE <<>>,
                              sent, Undefined)
        /\ UNCHANGED <<pkmFlag, promptPathFlag, hasUI, fs, started>>

(***************************************************************************)
(* session_start.                                                          *)
(***************************************************************************)
\* state.enabled after the flag and the persisted entries are applied.
reconcileEnabled_FlagLast(isEnabled, flag, log) ==
    LET persistedEnabled == parsePkmModeEntry(log)
        adopted == IF persistedEnabled.defined THEN persistedEnabled.value ELSE isEnabled
    IN  IF flag = TRUE THEN TRUE ELSE adopted

reconcileEnabled_Reset(isEnabled, flag, log) ==
    LET persistedEnabled == parsePkmModeEntry(log)
    IN  IF persistedEnabled.defined THEN persistedEnabled.value ELSE flag

reconcileEnabled(isEnabled, flag, log) ==
    LET seeded == IF flag = TRUE THEN TRUE ELSE isEnabled
        persistedEnabled == parsePkmModeEntry(log)
    IN  IF persistedEnabled.defined THEN persistedEnabled.value ELSE seeded

\* session_start with the resolved prompt added to the prompt in use.
sessionStart_Accumulate(log, resolved) ==
    LET isEnabled == reconcileEnabled(state.enabled, pkmFlag, log)
    IN  /\ state' = [enabled |-> isEnabled,
                     prompt |-> IF state.promptSource = BuiltinSource
                                THEN resolved.prompt
                                ELSE state.prompt \o <<"\n", "\n">> \o resolved.prompt,
                     promptSource |-> resolved.source]
        /\ entries' = log
        /\ statusItem' = updateStatus(hasUI, isEnabled, statusItem)
        /\ started' = TRUE
        /\ lastEvent' = Event("session_start", <<>>, <<>>, FALSE, state.enabled, FALSE,
                              <<>>, <<>>, <<>>, Undefined)
        /\ UNCHANGED <<outbox, pkmFlag, promptPathFlag, hasUI, fs>>

\* The host starts, resumes or switches to the session whose entries are log;
\* resolved is what resolvePrompt finds.
sessionStart(log, resolved) ==
    LET isEnabled == reconcileEnabled(state.enabled, pkmFlag, log)
    IN  /\ state' = [enabled |-> isEnabled, prompt |-> resolved.prompt,
                     promptSource |-> resolved.source]
        /\ entries' = log
        /\ statusItem' = updateStatus(hasUI, isEnabled, statusItem)
        /\ started' = TRUE
        /\ lastEvent' = Event("session_start", <<>>, <<>>, FALSE, state.enabled, FALSE,
                              <<>>, <<>>, <<>>, Undefined)
        /\ UNCHANGED <<outbox, pkmFlag, promptPathFlag, hasUI, fs>>

(***************************************************************************)
(* before_agent_start.                                                     *)
(***************************************************************************)
\* What the handler returns: undefined, or the system prompt to use.
beforeAgentStartResult_OneNewline(st, systemPrompt) ==
    IF ~st.enabled THEN Undefined
    ELSE Defined(systemPrompt \o <<"\n">> \o st.prompt)

beforeAgentStartResult(st, systemPrompt) ==
    IF ~st.enabled THEN Undefined
    ELSE Defined(systemPrompt \o <<"\n", "\n">> \o st.prompt)

\* An agent turn starts, for the oldest forwarded message or for a prompt
\* the user typed.
beforeAgentStart(systemPrompt, forwarded, typed) ==
    /\ started
    /\ forwarded => outbox # <<>>
    /\ outbox' = IF forwarded THEN Tail(outbox) ELSE outbox
    /\ lastEvent' = Event("before_agent_start", IF forwarded THEN Head(outbox) ELSE typed,
                          systemPrompt, forwarded, state.enabled, FALSE, <<>>, <<>>, <<>>,
                          beforeAgentStartResult(state, systemPrompt))
    /\ UNCHANGED <<state, entries, statusItem, pkmFlag, promptPathFlag, hasUI, fs, started>>

Next ==
    \/ \E args \in CommandArgs : pkmCommand(args)
    \/ \E resolved \in {resolvePrompt(fs, promptPathFlag)} :
          \/ \E log \in HistoryLogs : sessionStart(log, resolved)
          \/ sessionStart(entries, resolved)
    \/ \E systemPrompt \in SystemPrompts, forwarded \in BOOLEAN, typed \in TypedPrompts :
          beforeAgentStart(systemPrompt, forwarded, typed)

Spec == Init /\ [][Next]_vars

(***************************************************************************)
(* Prompt resolution against every file system: each of the four candidate *)
(* paths holds nothing, something unreadable, or one of the prompt files,  *)
(* and the file at the custom path changes between session starts.         *)
(***************************************************************************)
PromptFiles ==
    {Missing, Unreadable, AssignedFile, BlankBlockFile, NoBlockFile, DocstringFile}

FileSystems == {FileSystem(c, d1, d2, d3) : c, d1, d2, d3 \in PromptFiles}

\* --pkm-prompt-path: not given, blank, or the custom path.
PathFlags == {NoFlag, FlagValue(<<" ", " ">>), FlagValue(<<" ", "~", "/", "my.py", " ">>)}

ResolveInit ==
    /\ state = [enabled |-> FALSE, prompt |-> DEFAULT_PI_PKM_PROMPT, promptSource |-> BuiltinSource]
    /\ entries = <<>>
    /\ statusItem = "undefined"
    /\ outbox = <<>>
    /\ pkmFlag \in BOOLEAN
    /\ promptPathFlag \in PathFlags
    /\ fs \in FileSystems
    /\ hasUI = TRUE
    /\ started = FALSE
    /\ lastEvent = Event("load", <<>>, <<>>, FALSE, FALSE, FALSE, <<>>, <<>>, <<>>, Undefined)

\* The user or another program replaces what the custom path holds.
fileSystemChange(file) ==
    /\ fs[CustomPath] # file
    /\ fs' = [fs EXCEPT ![CustomPath] = file]
    /\ lastEvent' = Event("fs_change", <<>>, <<>>, FALSE, state.enabled, FALSE,
                          <<>>, <<>>, <<>>, Undefined)
    /\ UNCHANGED <<state, entries, statusItem, outbox, pkmFlag, promptPathFlag, hasUI, started>>

ResolveNext ==
    \/ \E resolved \in {resolvePrompt(fs, promptPathFlag)} : sessionStart(entries, resolved)
    \/ \E file \in PromptFiles : fileSystemChange(file)

ResolveSpec == ResolveInit /\ [][ResolveNext]_vars

(***************************************************************************)
(* Session-start reconciliation against session logs whose "pkm-mode"      *)
(* entries carry data of every shape.                                      *)
(***************************************************************************)
RecordEntries ==
    { MessageEntry,
      PkmEntry(TRUE),
      PkmEntry(FALSE),
      CustomEntry("pkm-mode", NoData),
      CustomEntry("pkm-mode", StringData),
      CustomEntry("pkm-mode", OtherObject),
      CustomEntry("other", EnabledData(TRUE)) }

RecordLogs == UNION {[1..n -> RecordEntries] : n \in 0..MaxRecords}

ReconcileInit ==
    /\ state = [enabled |-> FALSE, prompt |-> DEFAULT_PI_PKM_PROMPT, promptSource |-> BuiltinSource]
    /\ entries = <<>>
    /\ statusItem = "undefined"
    /\ outbox = <<>>
    /\ pkmFlag \in BOOLEAN
    /\ promptPathFlag = NoFlag
    /\ fs = FileSystem(Missing, Missing, Missing, Missing)
    /\ hasUI \in BOOLEAN
    /\ started = FALSE
    /\ lastEvent = Event("load", <<>>, <<>>, FALSE, FALSE, FALSE, <<>>, <<>>, <<>>, Undefined)

ReconcileNext ==
    \/ \E log \in RecordLogs :
          sessionStart(log, resolvePrompt(fs, promptPathFlag))
    \/ pkmCommand(<<>>)

ReconcileSpec == ReconcileInit /\ [][ReconcileNext]_vars

(***************************************************************************)
(* Extraction from generated prompt files: every content put together from *)
(* at most MaxSegments segments.                                           *)
(***************************************************************************)
PromptSegments ==
    { <<DQ, "a", DQ>>,
      <<SQ, "\n", " ", "b", SQ>>,
      <<"prompt", " ", "=", " ">>,
      <<"system", "=">>,
      <<"x", "=">>,
      <<"\n", " ">>,
      <<"r">>,
      <<DQ>> }

RECURSIVE Flatten(_)
Flatten(parts) == IF parts = <<>> THEN <<>> ELSE Head(parts) \o Flatten(Tail(parts))

PromptContents ==
    {Flatten(parts) : parts \in UNION {[1..n -> PromptSegments] : n \in 0..MaxSegments}}

ExtractInit ==
    /\ state = [enabled |-> FALSE, prompt |-> DEFAULT_PI_PKM_PROMPT, promptSource |-> BuiltinSource]
    /\ entries = <<>>
    /\ statusItem = "undefined"
    /\ outbox = <<>>
    /\ pkmFlag = FALSE
    /\ promptPathFlag = FlagValue(<<" ", "~", "/", "my.py", " ">>)
    /\ \E content \in PromptContents : fs = FileSystem(File(content), Missing, Missing, Missing)
    /\ hasUI = FALSE
    /\ started = FALSE
    /\ lastEvent = Event("load", <<>>, <<>>, FALSE, FALSE, FALSE, <<>>, <<>>, <<>>, Undefined)

\* The body of the loop of resolvePiPkmPrompt for a path that holds a file,
\* up to the extraction: the content read and the text extracted from it.
extractPrompt(path) ==
    /\ existsSync(fs, path)
    /\ fs[path].kind = "file"
    /\ lastEvent' = Event("extract", fs[path].content, <<>>, FALSE, state.enabled, FALSE,
                          <<>>, <<>>, <<>>, extractPiPkmPromptFromPython(fs[path].content))
    /\ UNCHANGED <<state, entries, statusItem, outbox, pkmFlag, promptPathFlag, hasUI, fs, started>>

ExtractNext == extractPrompt(normalizePromptPath(promptPathFlag.value))

ExtractSpec == ExtractInit /\ [][ExtractNext]_vars


(***************************************************************************)
(* The properties.                                                         *)
(***************************************************************************)
\* The "pkm-mode" record that /pkm writes for the value b.
PkmRecord(b) ==
    [ type |-> "custom", customType |-> "pkm-mode",
      data |-> [kind |-> "object", enabledIsBoolean |-> TRUE, enabled |-> b] ]

\* The positions of the "pkm-mode" records of a log.
PkmRecords(log) ==
    {i \in 1..Len(log) : log[i].type = "custom" /\ log[i].customType = "pkm-mode"}

\* The most recent "pkm-mode" record of a log that has one.
MostRecentPkm(log) ==
    log[CHOOSE i \in PkmRecords(log) : \A j \in PkmRecords(log) : j <= i]

\* The last handler was /pkm with an argument that normalizes into words.
CommandWith(ev, words) == ev.op = "pkm" /\ ToLowerCase(Trim(ev.args)) \in words

ToggleWords == { <<>> }
SetOnWords == { <<"o", "n">>, <<"e", "n", "a", "b", "l", "e">>,
                <<"e", "n", "a", "b", "l", "e", "d">> }
SetOffWords == { <<"o", "f", "f">>, <<"d", "i", "s", "a", "b", "l", "e">>,
                 <<"d", "i", "s", "a", "b", "l", "e", "d">> }
StatusWords == { <<"s", "t", "a", "t", "u", "s">> }
KeyWords == ToggleWords \cup SetOnWords \cup SetOffWords \cup StatusWords

\* C1: after session_start, when the most recent "pkm-mode" record of the
\* session's entries carries a boolean enabled = b, state.enabled = b,
\* whatever --pkm and the value of enabled before the handler were.
C1_PersistedRecordWins ==
    (lastEvent.op = "session_start" /\ PkmRecords(entries) # {})
        => \A b \in BOOLEAN :
              MostRecentPkm(entries) = PkmRecord(b) => state.enabled = b

\* C1 witness: --pkm is set, enabled was true, the most recent "pkm-mode"
\* record says false and is followed by another entry: the session starts
\* disabled.
C1_Witness ==
    /\ lastEvent.op = "session_start"
    /\ pkmFlag
    /\ lastEvent.pre
    /\ Len(entries) = 2
    /\ entries[1] = PkmRecord(FALSE)
    /\ entries[2].type = "message"
    /\ ~state.enabled

\* C2: /pkm with an empty or white-space-only argument flips enabled, and
\* two such invocations in a row restore the value from before the first.
C2_ToggleRoundTrip ==
    [][ CommandWith(lastEvent', ToggleWords)
          => /\ state'.enabled = ~state.enabled
             /\ CommandWith(lastEvent, ToggleWords) => state'.enabled = lastEvent.pre ]_vars

\* C2 witness: a second toggle in a row has run, the first from a
\* white-space-only or empty argument, and enabled is true again.
C2_Witness ==
    /\ CommandWith(lastEvent, ToggleWords)
    /\ lastEvent.again
    /\ lastEvent.args # <<>>
    /\ ~lastEvent.pre
    /\ state.enabled

\* C3: /pkm on, enable or enabled (trimmed, lower-cased) ends enabled, /pkm
\* off, disable or disabled ends disabled, and neither forwards a message.
C3_OnOffWords ==
    /\ CommandWith(lastEvent, SetOnWords) => state.enabled /\ lastEvent.sent = <<>>
    /\ CommandWith(lastEvent, SetOffWords) => ~state.enabled /\ lastEvent.sent = <<>>

\* C3 witness: " Enable " has switched the mode on from off.
C3_Witness ==
    /\ lastEvent.op = "pkm"
    /\ lastEvent.args = <<" ", "E", "n", "a", "b", "l", "e", " ">>
    /\ ~lastEvent.pre
    /\ state.enabled

\* C4: /pkm with a free-text argument (not empty and no key word once
\* trimmed and lower-cased) ends enabled and forwards exactly one message,
\* the trimmed argument in its original case, which is the newest message
\* awaiting its agent turn; every other branch forwards nothing.
C4_FreeTextForwarded ==
    lastEvent.op = "pkm"
        => IF CommandWith(lastEvent, KeyWords)
           THEN lastEvent.sent = <<>>
           ELSE /\ state.enabled
                /\ lastEvent.sent = <<Trim(lastEvent.args)>>
                /\ outbox # <<>>
                /\ outbox[Len(outbox)] = Trim(lastEvent.args)

\* C4 witness: " On It " has switched the mode on and "On It" awaits its
\* agent turn.
C4_Witness ==
    /\ lastEvent.op = "pkm"
    /\ lastEvent.args = <<" ", "O", "n", " ", "I", "t", " ">>
    /\ ~lastEvent.pre
    /\ state.enabled
    /\ outbox = << <<"O", "n", " ", "I", "t">> >>

\* C5: before_agent_start returns no override when disabled and the input
\* system prompt, two newlines and state.prompt when enabled, and changes
\* neither the state nor the session log.
C5_PromptInjectionPure ==
    [][ lastEvent'.op = "before_agent_start"
          => /\ state' = state
             /\ entries' = entries
             /\ lastEvent'.appended = <<>>
             /\ ~state.enabled => ~lastEvent'.result.defined
             /\ state.enabled =>
                   /\ lastEvent'.result.defined
                   /\ lastEvent'.result.text =
                         lastEvent'.systemPrompt \o <<"\n", "\n">> \o state.prompt ]_vars

\* C5 witness: an enabled mode has extended a non-empty system prompt.
C5_Witness ==
    /\ lastEvent.op = "before_agent_start"
    /\ state.enabled
    /\ lastEvent.systemPrompt # <<>>
    /\ lastEvent.result.defined
    /\ Len(lastEvent.result.text) > Len(lastEvent.systemPrompt) + 2

\* C6: /pkm status changes neither the state nor the session log, forwards
\* nothing, and with a UI notifies "PKM mode enabled. Prompt: <promptSource>"
\* or "PKM mode disabled. Prompt: <promptSource>".
C6_StatusChangesNothing ==
    [][ CommandWith(lastEvent', StatusWords)
          => /\ state' = state
             /\ entries' = entries
             /\ lastEvent'.appended = <<>>
             /\ outbox' = outbox
             /\ lastEvent'.sent = <<>>
             /\ hasUI =>
                   /\ Len(lastEvent'.notes) = 1
                   /\ lastEvent'.notes[1].text =
                         <<"PKM mode ", IF state.enabled THEN "enabled" ELSE "disabled",
                           ". Prompt: ">> \o state.promptSource ]_vars

\* C6 witness: status was asked with a UI while the mode was enabled with a
\* prompt read from a file.
C6_Witness ==
    /\ CommandWith(lastEvent, StatusWords)
    /\ hasUI
    /\ state.enabled
    /\ state.promptSource # BuiltinSource
    /\ lastEvent.notes # <<>>

\* C7: every /pkm invocation other than status appends exactly one
\* "pkm-mode" record, whose enabled field is state.enabled as the handler
\* leaves it, also when the value did not change.
C7_PersistAfterCommand ==
    [][ (lastEvent'.op = "pkm" /\ ~CommandWith(lastEvent', StatusWords))
          => /\ lastEvent'.appended = <<PkmRecord(state'.enabled)>>
             /\ entries' = entries \o <<PkmRecord(state'.enabled)>> ]_vars

\* C7 witness: /pkm on has run while the mode was on and the log ends with
\* two records that say so.
C7_Witness ==
    /\ CommandWith(lastEvent, SetOnWords)
    /\ lastEvent.pre
    /\ Len(entries) = 2
    /\ entries[1] = PkmRecord(TRUE)
    /\ entries[2] = PkmRecord(TRUE)


\* C8 as stated: every change of state.enabled, by any handler, comes with
\* an appended "pkm-mode" record that carries the new value.
C8_RecordOnEveryChange ==
    [][ state'.enabled # state.enabled
          => lastEvent'.appended = <<PkmRecord(state'.enabled)>> ]_vars

\* C8, amended: only /pkm and session_start change state.enabled; every
\* change made by /pkm comes with exactly one appended "pkm-mode" record
\* that carries the new value and ends the session log; session_start
\* appends nothing, whether it changes state.enabled or not.
C8_RecordOnCommandChange ==
    [][ /\ state'.enabled # state.enabled => lastEvent'.op \in {"pkm", "session_start"}
        /\ (state'.enabled # state.enabled /\ lastEvent'.op = "pkm")
              => /\ lastEvent'.appended = <<PkmRecord(state'.enabled)>>
                 /\ entries' = entries \o <<PkmRecord(state'.enabled)>>
        /\ lastEvent'.op = "session_start" => lastEvent'.appended = <<>> ]_vars

\* C8 witness: /pkm has switched the mode off and the log ends with the
\* record {enabled: false}.
C8_Witness ==
    /\ lastEvent.op = "pkm"
    /\ lastEvent.pre
    /\ ~state.enabled
    /\ lastEvent.appended = <<PkmRecord(FALSE)>>
    /\ entries # <<>>
    /\ entries[Len(entries)] = PkmRecord(FALSE)

\* C9 as stated: after every session_start whose entries hold no "pkm-mode"
\* record, state.enabled is true exactly when --pkm is set.
C9_NoHistoryEqualsFlag ==
    (lastEvent.op = "session_start" /\ PkmRecords(entries) = {})
        => state.enabled = pkmFlag

\* C9, amended: after a session_start whose entries hold no "pkm-mode"
\* record, state.enabled is true when --pkm is set and otherwise keeps the
\* value it had before the handler; at the first session_start after the
\* extension is loaded that value is false, so there state.enabled is true
\* exactly when --pkm is set.
C9_NoHistoryKeepsSeed ==
    [][ (lastEvent'.op = "session_start" /\ PkmRecords(entries') = {})
          => /\ state'.enabled = (pkmFlag \/ state.enabled)
             /\ ~started => state'.enabled = pkmFlag ]_vars

\* C9 witness: without --pkm, a session without "pkm-mode" records has
\* started while the mode was on, and the mode is still on.
C9_Witness ==
    /\ lastEvent.op = "session_start"
    /\ PkmRecords(entries) = {}
    /\ entries # <<>>
    /\ ~pkmFlag
    /\ lastEvent.pre
    /\ state.enabled

\* C10: in every reachable state state.enabled is a boolean and
\* state.prompt is not empty; a prompt file whose extracted text is empty is
\* never adopted.
C10_StateInvariant ==
    /\ state.enabled \in BOOLEAN
    /\ state.prompt # <<>>
    /\ state.promptSource # <<>>

\* C10 witness: a session has started with --pkm-prompt-path naming a file
\* whose only block is blank, and the prompt comes from elsewhere.
C10_Witness ==
    /\ lastEvent.op = "session_start"
    /\ promptPathFlag.isString
    /\ normalizePromptPath(promptPathFlag.value) = CustomPath
    /\ fs[CustomPath] = BlankBlockFile
    /\ state.promptSource # CustomPath
    /\ state.prompt = <<"Doc.">>


\* The candidates of prompt resolution, in the order they are tried: the
\* trimmed --pkm-prompt-path when it is a non-blank string, then the three
\* default paths; each as the path the file system is asked for.
CandidatePaths ==
    (IF promptPathFlag.isString /\ ~IsBlank(promptPathFlag.value)
     THEN <<normalizePromptPath(promptPathFlag.value)>>
     ELSE <<>>) \o getDefaultPiPkmPromptPaths

\* A candidate path fails: it does not exist, cannot be read, or its content
\* yields no quoted block or an empty one.
CandidateFails(path) ==
    \/ path \notin DOMAIN fs
    \/ fs[path] = Missing
    \/ fs[path] = Unreadable
    \/ /\ fs[path].kind = "file"
       /\ LET extracted == extractPiPkmPromptFromPython(fs[path].content)
          IN  ~extracted.defined \/ extracted.text = <<>>

EveryCandidateFails == \A i \in 1..Len(CandidatePaths) : CandidateFails(CandidatePaths[i])

\* C11: when every candidate path is missing, unreadable or yields no
\* non-empty quoted block, resolvePiPkmPrompt returns the built-in prompt
\* with the label "builtin-default", and after session_start state.prompt
\* and state.promptSource hold these values.
C11_ResolutionFallback ==
    EveryCandidateFails
        => /\ resolvePiPkmPrompt(fs, CandidatePaths)
                 = [prompt |-> DEFAULT_PI_PKM_PROMPT, source |-> <<"builtin-default">>]
           /\ lastEvent.op = "session_start"
                 => /\ state.prompt = DEFAULT_PI_PKM_PROMPT
                    /\ state.promptSource = <<"builtin-default">>

\* C11 witness: a session has started with --pkm-prompt-path naming an
\* unreadable file while the default paths hold a blank block, no block and
\* nothing: the built-in prompt is in use.
C11_Witness ==
    /\ lastEvent.op = "session_start"
    /\ promptPathFlag.isString
    /\ CandidatePaths[1] = CustomPath
    /\ fs[CustomPath] = Unreadable
    /\ fs[CandidatePaths[2]] = BlankBlockFile
    /\ fs[CandidatePaths[3]] = NoBlockFile
    /\ fs[CandidatePaths[4]] = Missing
    /\ state.prompt = DEFAULT_PI_PKM_PROMPT
    /\ state.promptSource = BuiltinSource


\* A candidate path whose read or parse fails: what it holds cannot be read,
\* or holds no quoted block.
ReadOrParseFails(path) ==
    /\ path \in DOMAIN fs
    /\ \/ fs[path] = Unreadable
       \/ fs[path].kind = "file" /\ ~extractPiPkmPromptFromPython(fs[path].content).defined

\* C12: a session_start that follows a session_start, with the same flag and
\* the same file system, leaves state.prompt and state.promptSource as the
\* first left them; and every session_start runs to its last statement,
\* whatever the candidates hold: the prompt is assigned, --pkm is applied
\* and the status item is refreshed.
C12_ResolutionIdempotent ==
    [][ lastEvent'.op = "session_start"
          => /\ lastEvent.op = "session_start"
                   => /\ state'.prompt = state.prompt
                      /\ state'.promptSource = state.promptSource
             /\ started'
             /\ state'.prompt # <<>>
             /\ (pkmFlag /\ PkmRecords(entries') = {}) => state'.enabled
             /\ hasUI => statusItem' = IF state'.enabled THEN "PKM" ELSE "undefined" ]_vars

\* C12 witness: session_start has run with --pkm while the custom path
\* cannot be read and the first default path holds no quoted block; the
\* prompt comes from the second default path and the mode is on.
C12_Witness ==
    /\ lastEvent.op = "session_start"
    /\ CandidatePaths[1] = CustomPath
    /\ ReadOrParseFails(CandidatePaths[1])
    /\ fs[CandidatePaths[1]] = Unreadable
    /\ ReadOrParseFails(CandidatePaths[2])
    /\ fs[CandidatePaths[2]] = NoBlockFile
    /\ state.promptSource = CandidatePaths[3]
    /\ state.prompt = <<"Keep notes.", "\n", " ", "Link them.">>
    /\ pkmFlag
    /\ state.enabled
    /\ statusItem = "PKM"


\* The positions of the "pkm-mode" records of a log that carry a boolean
\* enabled value.
BooleanRecords(log) ==
    {i \in PkmRecords(log) : log[i].data.kind = "object" /\ log[i].data.enabledIsBoolean}

\* The most recent "pkm-mode" record with a boolean enabled value.
LatestBoolean(log) ==
    log[CHOOSE i \in BooleanRecords(log) : \A j \in BooleanRecords(log) : j <= i]

\* A "pkm-mode" record whose data is missing, is no object, or has no
\* boolean enabled field.
Malformed(entry) ==
    /\ entry.type = "custom"
    /\ entry.customType = "pkm-mode"
    /\ ~(entry.data.kind = "object" /\ entry.data.enabledIsBoolean)

\* C13 as stated: after session_start, when the entries hold a "pkm-mode"
\* record with a boolean enabled value, state.enabled is the value of the
\* most recent such record, also when a newer "pkm-mode" record is
\* malformed.
C13_LatestBooleanAdopted ==
    (lastEvent.op = "session_start" /\ BooleanRecords(entries) # {})
        => state.enabled = LatestBoolean(entries).data.enabled

\* C13, what the code does: after session_start, when the most recent
\* "pkm-mode" record is malformed, the older records are not looked at:
\* state.enabled is true when --pkm is set and otherwise keeps the value it
\* had before the handler.
C13_MalformedNewestStopsScan ==
    (lastEvent.op = "session_start" /\ PkmRecords(entries) # {}
        /\ Malformed(MostRecentPkm(entries)))
        => state.enabled = (pkmFlag \/ lastEvent.pre)

\* C13 witness of the divergence: without --pkm the first session has
\* started on a log whose "pkm-mode" records are {enabled: true} and then a
\* newer one of another shape, and the mode is off.
C13_Witness ==
    /\ lastEvent.op = "session_start"
    /\ ~pkmFlag
    /\ ~lastEvent.pre
    /\ Len(entries) = 2
    /\ entries[1] = PkmRecord(TRUE)
    /\ Malformed(entries[2])
    /\ entries[2].data.kind = "string"
    /\ ~state.enabled


\* What the free-text branch of /pkm leaves behind, whatever the mode was:
\* the mode on, the record {enabled: true} at the end of the log, and the
\* trimmed text as the newest message awaiting its agent turn.
FreeTextTurnsOn ==
    (lastEvent'.op = "pkm" /\ lastEvent'.sent # <<>>)
        => /\ state'.enabled
           /\ lastEvent'.appended = <<PkmRecord(TRUE)>>
           /\ entries' = entries \o <<PkmRecord(TRUE)>>
           /\ outbox' = outbox \o lastEvent'.sent

\* The agent turn of a forwarded message, raised while the mode is on,
\* returns the system prompt with the PKM prompt appended.
ForwardedTurnInjects ==
    (lastEvent'.op = "before_agent_start" /\ lastEvent'.forwarded /\ state.enabled)
        => /\ lastEvent'.result.defined
           /\ lastEvent'.result.text = lastEvent'.systemPrompt \o <<"\n", "\n">> \o state.prompt

\* The agent turn that directly follows the free-text command is the turn
\* of a forwarded message and gets the PKM prompt.
ImmediateTurnInjects ==
    (lastEvent.op = "pkm" /\ lastEvent.sent # <<>>
        /\ lastEvent'.op = "before_agent_start" /\ lastEvent'.forwarded)
        => /\ lastEvent'.result.defined
           /\ lastEvent'.result.text = lastEvent'.systemPrompt \o <<"\n", "\n">> \o state.prompt
           /\ Len(outbox) = 1 => lastEvent'.args = lastEvent.sent[1]

WrittenByController(log) ==
    \A i \in PkmRecords(log) : \E b \in BOOLEAN : log[i] = PkmRecord(b)

\* After the session's session_start, a log whose "pkm-mode" records were
\* all written by /pkm and that has at least one agrees with the state.
LogAgreesWithState ==
    (started /\ WrittenByController(entries) /\ PkmRecords(entries) # {})
        => state.enabled = MostRecentPkm(entries).data.enabled

\* C15: after every handler that follows the session's session_start, a log
\* whose "pkm-mode" records were all written by /pkm and that holds at least
\* one has state.enabled equal to the most recent one's value; /pkm only
\* appends to the log, and session_start and before_agent_start write
\* nothing to it.
C15_LogAgreesWithState ==
    [][ /\ LogAgreesWithState'
        /\ lastEvent'.op = "pkm"
              => /\ entries' = entries \o lastEvent'.appended
                 /\ SubSeq(entries', 1, Len(entries)) = entries
        /\ lastEvent'.op = "before_agent_start" => entries' = entries
        /\ lastEvent'.op = "session_start" => lastEvent'.appended = <<>> ]_vars

\* C15 witness: the session started on a log that says false, /pkm has
\* switched the mode on, and an agent turn has started since: the log ends
\* with {enabled: true} after the older record and the mode is on.
C15_Witness ==
    /\ lastEvent.op = "before_agent_start"
    /\ started
    /\ entries = <<PkmRecord(FALSE), PkmRecord(TRUE)>>
    /\ WrittenByController(entries)
    /\ state.enabled
    /\ lastEvent.result.defined


\* C16: after session_start the prompt comes from the first candidate, in
\* the order custom path (when --pkm-prompt-path is a non-blank string) and
\* then the three default paths, that exists, can be read and yields a
\* non-empty block: state.promptSource is that candidate's normalized path
\* and state.prompt its extracted text, whatever the candidates before it
\* (missing, unreadable, without a usable block) and after it hold.
C16_CandidateOrder ==
    lastEvent.op = "session_start"
        => \A k \in 1..Len(CandidatePaths) :
              ( /\ ~CandidateFails(CandidatePaths[k])
                /\ \A j \in 1..(k - 1) : CandidateFails(CandidatePaths[j]) )
                  => /\ state.promptSource = CandidatePaths[k]
                     /\ state.prompt =
                           extractPiPkmPromptFromPython(fs[CandidatePaths[k]].content).text

\* C16 witness: the custom path cannot be read, the first default path has
\* no block, the second and the third both hold a usable file: the prompt is
\* the second's.
C16_Witness ==
    /\ lastEvent.op = "session_start"
    /\ Len(CandidatePaths) = 4
    /\ CandidatePaths[1] = <<"/", "home", "/", "user", "/", "my.py">>
    /\ fs[CandidatePaths[1]] = Unreadable
    /\ fs[CandidatePaths[2]] = NoBlockFile
    /\ fs[CandidatePaths[3]] = DocstringFile
    /\ fs[CandidatePaths[4]] = AssignedFile
    /\ state.promptSource = CandidatePaths[3]
    /\ state.prompt = <<"Doc.">>


\* state.enabled as the claim expects it after /pkm with the argument of the
\* last event, from the value before the handler.
ExpectedAfterCommand ==
    IF CommandWith(lastEvent, StatusWords) THEN lastEvent.pre
    ELSE IF CommandWith(lastEvent, SetOnWords) THEN TRUE
    ELSE IF CommandWith(lastEvent, SetOffWords) THEN FALSE
    ELSE IF CommandWith(lastEvent, ToggleWords) THEN ~lastEvent.pre
    ELSE TRUE

\* C17: with a UI, after every /pkm command and every session_start the
\* status item "pkm-mode" is set ("PKM") exactly when state.enabled is true
\* and cleared (undefined) exactly when it is false; without a UI the status
\* item is never touched and nothing is notified, while /pkm still changes
\* state.enabled and appends its record.
C17_StatusItemAgrees ==
    /\ (hasUI /\ lastEvent.op \in {"pkm", "session_start"})
          => /\ statusItem = "PKM" <=> state.enabled
             /\ statusItem = "undefined" <=> ~state.enabled
    /\ ~hasUI
          => /\ statusItem = "undefined"
             /\ lastEvent.notes = <<>>
             /\ lastEvent.op = "pkm"
                   => /\ state.enabled = ExpectedAfterCommand
                      /\ ~CommandWith(lastEvent, StatusWords)
                            => /\ lastEvent.appended = <<PkmRecord(state.enabled)>>
                               /\ entries # <<>>
                               /\ entries[Len(entries)] = PkmRecord(state.enabled)

\* C17 witness: with a UI, /pkm Disable has switched the mode off and the
\* status item is cleared.
C17_Witness ==
    /\ hasUI
    /\ lastEvent.op = "pkm"
    /\ lastEvent.args = <<"D", "i", "s", "a", "b", "l", "e">>
    /\ lastEvent.pre
    /\ ~state.enabled
    /\ statusItem = "undefined"
    /\ lastEvent.notes = << Note(<<"PKM mode disabled">>, "info") >>


\* C18: only session_start writes state.prompt and state.promptSource:
\* every branch of /pkm and before_agent_start leave both as they were, and
\* an agent turn started while the mode is on appends the prompt the last
\* session_start left.
C18_PromptFrame ==
    [][ /\ lastEvent'.op \in {"pkm", "before_agent_start"}
              => /\ state'.prompt = state.prompt
                 /\ state'.promptSource = state.promptSource
        /\ (state'.prompt # state.prompt \/ state'.promptSource # state.promptSource)
              => lastEvent'.op = "session_start"
        /\ (lastEvent'.op = "before_agent_start" /\ lastEvent'.result.defined)
              => lastEvent'.result.text =
                    lastEvent'.systemPrompt \o <<"\n", "\n">> \o state.prompt ]_vars

\* C18 witness: session_start took the prompt "Doc." from a default path on
\* a log that says false, a free-text /pkm has run, and the agent turn of
\* the forwarded message appends "Doc.".
C18_Witness ==
    /\ lastEvent.op = "before_agent_start"
    /\ lastEvent.forwarded
    /\ Len(entries) = 2
    /\ entries[1] = PkmRecord(FALSE)
    /\ entries[2] = PkmRecord(TRUE)
    /\ state.promptSource = getDefaultPiPkmPromptPaths[3]
    /\ state.prompt = <<"Doc.">>
    /\ lastEvent.result = Defined(lastEvent.systemPrompt \o <<"\n", "\n", "Doc.">>)


\* The hinted assignment names of the claim.
HintedNames == {"pkm_system", "main_system", "system_prompt", "system", "prompt"}

\* content[i..j] is a triple-quoted block: a delimiter, and the nearest
\* later delimiter of the same kind.
QuotedBlock(content, i, j) ==
    /\ i \in 1..Len(content)
    /\ j \in (i + 1)..Len(content)
    /\ content[i] \in {"\"\"\"", "'''"}
    /\ content[j] = content[i]
    /\ \A k \in (i + 1)..(j - 1) : content[k] # content[i]

QuotedBlocks(content) ==
    {b \in (1..Len(content)) \X (1..Len(content)) : QuotedBlock(content, b[1], b[2])}

\* The block that opens at i is assigned to a hinted name: the name stands
\* first on its line, after white space at most, and is followed by "=" and
\* the block, with white space around "=" and at most two string-prefix
\* letters before the block.
AssignedToHintedName(content, i) ==
    \E n \in 1..(i - 1), e \in 1..(i - 1), q \in 1..i :
        /\ n < e /\ e < q
        /\ content[n] \in HintedNames
        /\ \E p \in 0..(n - 1) :
              /\ p = 0 \/ content[p] = "\n"
              /\ \A k \in (p + 1)..(n - 1) : content[k] \in {" ", "\t", "\r", "\n"}
        /\ content[e] = "="
        /\ \A k \in (n + 1)..(e - 1) : content[k] \in {" ", "\t", "\r", "\n"}
        /\ \A k \in (e + 1)..(q - 1) : content[k] \in {" ", "\t", "\r", "\n"}
        /\ i - q <= 2
        /\ \A k \in q..(i - 1) : content[k] \in {"r", "R", "u", "U", "b", "B", "f", "F"}

AssignedBlocks(content) ==
    {b \in QuotedBlocks(content) : AssignedToHintedName(content, b[1])}

\* The block of a non-empty set of blocks that opens first.
FirstBlock(blocks) == CHOOSE b \in blocks : \A c \in blocks : b[1] <= c[1]

\* The text between the delimiters of a block, de-indented.
BlockText(content, b) == dedent(SubSeq(content, b[1] + 1, b[2] - 1))

\* C19: extractPiPkmPromptFromPython returns the de-indented text of the
\* first triple-quoted block assigned to a hinted name when the content has
\* one, also when an unassigned block opens before it; the de-indented text
\* of the first triple-quoted block when no block is assigned to a hinted
\* name; and undefined when the content has no triple-quoted block.
C19_AssignedBlockPreferred ==
    lastEvent.op = "extract"
        => LET content == lastEvent.args
               assigned == AssignedBlocks(content)
               blocks == QuotedBlocks(content)
           IN  IF assigned # {}
               THEN lastEvent.result = [defined |-> TRUE,
                                        text |-> BlockText(content, FirstBlock(assigned))]
               ELSE IF blocks # {}
               THEN lastEvent.result = [defined |-> TRUE,
                                        text |-> BlockText(content, FirstBlock(blocks))]
               ELSE lastEvent.result = [defined |-> FALSE, text |-> <<>>]

\* C19 witness: the extraction has run on a file with the unassigned block
\* """a""" and, on the next line, prompt = '''...''' with the text b, and
\* has returned b.
C19_Witness ==
    /\ lastEvent.op = "extract"
    /\ lastEvent.args = <<"\"\"\"", "a", "\"\"\"", "\n", " ", "prompt", " ", "=", " ",
                          "'''", "\n", " ", "b", "'''">>
    /\ AssignedBlocks(lastEvent.args) = {<<10, 14>>}
    /\ <<1, 3>> \in QuotedBlocks(lastEvent.args)
    /\ lastEvent.result = [defined |-> TRUE, text |-> <<"b">>]

=============================================================================
